---- MODULE Spec2Model ----
(***************************************************************************)
(* Model of the two layer-file tools:                                      *)
(*   tools/normalize_positions.py  (coordinate jitter rewrite)             *)
(*   tools/sort_layer_markers.py   (top-level array locator and sorter)    *)
(***************************************************************************)
EXTENDS Integers, Sequences, FiniteSets, TLC

VARIABLES
    orig_s,      \* repl: the literal matched by coord_pattern (group 2)
    hexstr,      \* repl: md5(uid+name).hexdigest(), 32 hex characters
    newd,        \* repl: the quantized Decimal of the last call
    new_s,       \* repl: the literal emitted by the last call
    state,       \* repl: the mutable container {'changed', 'count'}
    rpc,         \* repl: "idle", "matched", "returned", "raised"
    jdisk,       \* jitter tool: the text of every file of data/layers
    jpc,         \* jitter tool: "idle", "loop", "done", "crashed"
    js_left,     \* jitter tool: the files of js_files not yet iterated
    changed,     \* jitter tool: the loop's changed flag of the last file
    changed_files,  \* jitter tool: files rewritten by this run
    summary,     \* jitter tool: file -> number of coordinates matched
    jvisited,    \* jitter tool: files whose iteration has begun in this run
    jruns,       \* jitter tool: invocations that ran to the final print
    scan_s,      \* scanner: the text s
    scan_i,      \* scanner: the index i of the next character (0-based)
    in_single, in_double, in_template,
    in_line_comment, in_block_comment,
    escape, depth, start,
    ret,         \* scanner: the returned (start, end), or None
    spc,         \* scanner: "idle", "scan", "returned"
    inside,      \* history: indices read while a string/comment flag was set
    counted,     \* history: indices at which depth or start was assigned
    markers,     \* sort_markers: the argument list
    sorted_data, \* sort_markers: the returned list, elements tagged by input index
    kpc,         \* sort_markers: "idle", "called", "returned"
    disk,        \* sorter: path -> content, for the layer files and their .bak
    apply,       \* sorter: args.apply of the current run
    files_left,  \* sorter: the files of "for f in files" not yet iterated
    ok,          \* sorter: main's counter of truthy results
    log,         \* sorter: the lines printed by this run, as <<path, tag>>
    mpc,         \* sorter: main is "idle", in its "loop", or "done"
    ppc,         \* sorter: process_file is at its "start" or has "bak_written"
    visited,     \* history: files process_file was called on in this run
    before,      \* history: path -> content it held before its last overwrite
    sruns        \* sorter: completed runs

replVars == <<orig_s, hexstr, newd, new_s, state, rpc>>

jitterVars == <<jdisk, jpc, js_left, changed, changed_files, summary, jvisited, jruns>>

lexVars == <<in_single, in_double, in_template, in_line_comment, in_block_comment, escape>>

scanVars == <<scan_s, scan_i, lexVars, depth, start, ret, spc, inside, counted>>

sortVars == <<markers, sorted_data, kpc>>

sorterVars == <<disk, apply, files_left, ok, log, mpc, ppc, visited, before, sruns>>

vars == <<replVars, jitterVars, scanVars, sortVars, sorterVars>>

(***************************************************************************)
(* Digit sequences.  A sequence of digits is read most significant first.  *)
(***************************************************************************)
Rep(d, n) == [i \in 1..n |-> d]

Min(a, b) == IF a < b THEN a ELSE b

Max(a, b) == IF a > b THEN a ELSE b

PadLeft(s, n) == IF Len(s) >= n THEN s ELSE Rep(0, n - Len(s)) \o s

\* the digits without leading zeros; a lone 0 is kept
StripZeros(s) ==
    IF \A k \in 1..Len(s) : s[k] = 0
    THEN (IF s = <<>> THEN <<>> ELSE <<0>>)
    ELSE LET f == CHOOSE k \in 1..Len(s) : s[k] # 0 /\ \A j \in 1..(k - 1) : s[j] = 0
         IN SubSeq(s, f, Len(s))

\* the number of zeros at the end of s
TrailingZeros(s) ==
    IF \A k \in 1..Len(s) : s[k] = 0 THEN Len(s)
    ELSE LET l == CHOOSE k \in 1..Len(s) : s[k] # 0 /\ \A j \in (k + 1)..Len(s) : s[j] = 0
         IN Len(s) - l

\* the number of nines at the end of s
TrailingNines(s) ==
    IF \A k \in 1..Len(s) : s[k] = 9 THEN Len(s)
    ELSE LET l == CHOOSE k \in 1..Len(s) : s[k] # 9 /\ \A j \in (k + 1)..Len(s) : s[j] = 9
         IN Len(s) - l

\* s + 1
Incr(s) ==
    LET n == Len(s)
        t == TrailingNines(s)
    IN IF t = n THEN <<1>> \o Rep(0, n)
       ELSE [k \in 1..n |-> IF k < n - t THEN s[k] ELSE IF k = n - t THEN s[k] + 1 ELSE 0]

\* the carry into position k of a + b (k = 0: the carry out of the sum)
CarryInto(a, b, k) ==
    \E j \in (k + 1)..Len(a) :
        /\ a[j] + b[j] >= 10
        /\ \A m \in (k + 1)..(j - 1) : a[m] + b[m] = 9

\* a + b for two digit sequences of the same length
AddC(a, b) ==
    LET sum == [k \in 1..Len(a) |->
                   (a[k] + b[k] + (IF CarryInto(a, b, k) THEN 1 ELSE 0)) % 10]
    IN IF CarryInto(a, b, 0) THEN <<1>> \o sum ELSE sum

AllZero(s) == \A k \in 1..Len(s) : s[k] = 0

(***************************************************************************)
(* decimal.Decimal under getcontext().prec = 40, ROUND_HALF_EVEN.          *)
(* A Decimal is [digs, places]: the coefficient digits (no leading zeros)  *)
(* and the number of digits after the decimal point.                       *)
(***************************************************************************)
Prec == 40

Places == 16

JitterMod == 1000

JitterPlaces == 20

\* ROUND_HALF_EVEN: drop the last k digits of s, Len(s) > k.
RoundHalfEven(s, k) ==
    LET n    == Len(s)
        kept == SubSeq(s, 1, n - k)
        drop == SubSeq(s, n - k + 1, n)
        rest == SubSeq(drop, 2, k)
        up   == IF k = 0 THEN FALSE
                ELSE \/ drop[1] > 5
                     \/ drop[1] = 5 /\ ~AllZero(rest)
                     \/ drop[1] = 5 /\ AllZero(rest) /\ kept[Len(kept)] % 2 = 1
    IN IF up THEN Incr(kept) ELSE kept

\* Decimal(orig_s): exact, whatever the number of digits.
DecimalOf(lit) ==
    [digs |-> StripZeros(lit.int \o lit.frac), places |-> Len(lit.frac)]

\* Context rounding of an arithmetic result to Prec significant digits.
Fix(v) ==
    IF Len(v.digs) <= Prec THEN v
    ELSE LET k == Len(v.digs) - Prec
             r == RoundHalfEven(v.digs, k)
         IN IF Len(r) > Prec
            THEN [digs |-> SubSeq(r, 1, Prec), places |-> v.places - k - 1]
            ELSE [digs |-> r, places |-> v.places - k]

\* d + jitter
DecAdd(x, y) ==
    LET p  == Max(x.places, y.places)
        ax == x.digs \o Rep(0, p - x.places)
        ay == y.digs \o Rep(0, p - y.places)
        L  == Max(Len(ax), Len(ay))
    IN Fix([digs   |-> StripZeros(AddC(PadLeft(ax, L), PadLeft(ay, L))),
            places |-> p])

\* d.quantize(Decimal('0.0000000000000001')); ok = FALSE is InvalidOperation.
Quantize(v) ==
    IF AllZero(v.digs) THEN [ok |-> TRUE, digs |-> <<0>>, places |-> Places]
    ELSE IF Len(v.digs) - v.places + Places > Prec
    THEN [ok |-> FALSE, digs |-> <<0>>, places |-> Places]
    ELSE LET r == IF v.places <= Places
                  THEN v.digs \o Rep(0, Places - v.places)
                  ELSE LET k == v.places - Places
                       IN StripZeros(RoundHalfEven(PadLeft(v.digs, k + 1), k))
         IN [ok |-> Len(r) <= Prec, digs |-> r, places |-> Places]

\* format(newd, 'f') split at the point: (intpart, base_frac)
FormatF(q) ==
    LET p == PadLeft(q.digs, q.places + 1)
        n == Len(p)
    IN [int |-> SubSeq(p, 1, n - q.places), frac |-> SubSeq(p, n - q.places + 1, n)]

\* str(newd) == orig_s.  str() switches to exponent notation when the
\* coefficient has fewer than places - 5 digits.
StrEquals(q, lit) ==
    /\ Len(q.digs) - q.places > -6
    /\ lit.int = FormatF(q).int
    /\ lit.frac = FormatF(q).frac

(***************************************************************************)
(* The hash of uid+name.  md5 is uninterpreted: hexstr is an input.        *)
(***************************************************************************)
RECURSIVE HexMod(_, _)
\* int(s, 16) % JitterMod
HexMod(s, acc) ==
    IF s = <<>> THEN acc ELSE HexMod(Tail(s), (acc * 16 + Head(s)) % JitterMod)

RECURSIVE DecDigits(_)
DecDigits(n) == IF n < 10 THEN <<n>> ELSE DecDigits(n \div 10) \o <<n % 10>>

\* the jitter divided by 10 ** 17 instead of 10 ** 20
JitterCoarse(hx) ==
    [digs |-> DecDigits(HexMod(SubSeq(hx, 1, 8), 0)), places |-> 17]

\* Decimal(h % 1000) / Decimal(10) ** 20
Jitter(hx) ==
    [digs |-> DecDigits(HexMod(SubSeq(hx, 1, 8), 0)), places |-> JitterPlaces]

\* ''.join(str(int(c, 16) % 10) for c in hexstr)
DigitsStream(hx) == [i \in 1..Len(hx) |-> hx[i] % 10]

\* (digits_stream * ((n // len(digits_stream)) + 1))[:n]
StreamTake(ds, n) == [i \in 1..n |-> ds[((i - 1) % Len(ds)) + 1]]

(***************************************************************************)
(* repl: the rewrite of one coordinate literal.                            *)
(***************************************************************************)
NewD(lit, hx) ==
    IF Len(lit.frac) >= Places THEN Quantize(DecimalOf(lit))
    ELSE Quantize(DecAdd(DecimalOf(lit), Jitter(hx)))

BaseFinalFrac(base_frac, ds) ==
    IF Len(base_frac) < 16
    THEN SubSeq(base_frac \o StreamTake(ds, 16 - Len(base_frac)), 1, 16)
    ELSE SubSeq(base_frac, 1, 16)

\* the trailing-zero count taken without the cap of 16
FinalFracUncapped(orig_frac, base_frac, ds) ==
    LET ff == BaseFinalFrac(base_frac, ds)
        tz == TrailingZeros(orig_frac)
    IN IF tz > 0 THEN SubSeq(ff, 1, 16 - tz) \o StreamTake(ds, tz) ELSE ff

FinalFrac(orig_frac, base_frac, ds) ==
    LET ff == BaseFinalFrac(base_frac, ds)
        tz == Min(16, TrailingZeros(orig_frac))
    IN IF tz > 0 THEN SubSeq(ff, 1, 16 - tz) \o StreamTake(ds, tz) ELSE ff

Repl(lit, hx) ==
    LET q  == NewD(lit, hx)
        f  == FormatF(q)
        ns == [int |-> f.int, frac |-> FinalFrac(lit.frac, f.frac, DigitsStream(hx))]
    IN [raised  |-> ~q.ok,
        newd    |-> q,
        new_s   |-> ns,
        changed |-> ~StrEquals(q, lit) \/ ns # lit]

(***************************************************************************)
(* Inputs of repl.                                                         *)
(***************************************************************************)
MaxMid == 15

IntParts ==
    {Rep(d, n) : d \in {0, 9}, n \in {1, 24, 25}} \cup {<<0, 0, 7>>, <<1, 2>>}

FracParts ==
    {h \o Rep(m, k) \o t :
        h \in {<<>>, <<5>>, <<1, 2>>},
        m \in {0, 4, 9},
        k \in 0..MaxMid,
        t \in {<<>>, <<5>>, <<7>>, <<5, 0>>, <<0, 0>>}}

\* [0-9]+(?:\.[0-9]+)?  : an integer literal has an empty fraction
Literals == {[int |-> i, frac |-> f] : i \in IntParts, f \in FracParts}

\* the first 8 hex characters give h; h % 1000 is 999, 0, 295, 95 and 447
HexHeads ==
    {<<0, 0, 0, 0, 0, 3, 14, 7>>,
     <<0, 0, 0, 0, 0, 0, 0, 0>>,
     <<15, 15, 15, 15, 15, 15, 15, 15>>,
     <<3, 11, 5, 13, 5, 12, 3, 7>>,
     <<10, 7, 0, 0, 0, 0, 0, 0>>}

HexTail == <<1, 2, 9, 5, 5, 0, 4, 2, 2, 1, 2, 3, 1, 6, 1, 7, 3, 12, 12, 15, 3, 7, 11, 14>>

HexStrs == {h \o HexTail : h \in HexHeads}

NoDec == [ok |-> TRUE, digs |-> <<0>>, places |-> Places]

NoLit == [int |-> <<>>, frac |-> <<>>]

ReplIdle ==
    /\ orig_s = NoLit
    /\ hexstr = <<>>
    /\ newd = NoDec
    /\ new_s = NoLit
    /\ state = [changed |-> FALSE, count |-> 0]
    /\ rpc = "idle"

JitterIdle ==
    /\ jdisk = <<>>
    /\ jpc = "idle"
    /\ js_left = <<>>
    /\ changed = FALSE
    /\ changed_files = <<>>
    /\ summary = <<>>
    /\ jvisited = {}
    /\ jruns = 0

\* start = NoStart
NoStart == -1

\* return None
NoSpan == <<>>

ScanIdle ==
    /\ scan_s = <<>>
    /\ scan_i = 0
    /\ in_single = FALSE /\ in_double = FALSE /\ in_template = FALSE
    /\ in_line_comment = FALSE /\ in_block_comment = FALSE
    /\ escape = FALSE
    /\ depth = 0
    /\ start = NoStart
    /\ ret = NoSpan
    /\ spc = "idle"
    /\ inside = {}
    /\ counted = {}

SortIdle ==
    /\ markers = <<>>
    /\ sorted_data = <<>>
    /\ kpc = "idle"

SorterIdle ==
    /\ disk = <<>>
    /\ apply = FALSE
    /\ files_left = <<>>
    /\ ok = 0
    /\ log = <<>>
    /\ mpc = "idle"
    /\ ppc = "start"
    /\ visited = {}
    /\ before = <<>>
    /\ sruns = 0

InitRepl ==
    /\ JitterIdle
    /\ ScanIdle
    /\ SortIdle
    /\ SorterIdle
    /\ orig_s \in Literals
    /\ hexstr \in HexStrs
    /\ newd = NoDec
    /\ new_s = NoLit
    /\ state = [changed |-> FALSE, count |-> 0]
    /\ rpc = "matched"

\* coord_pattern.sub calls repl on the match; quantize succeeds
ReplReturn ==
    /\ rpc = "matched"
    /\ LET r == Repl(orig_s, hexstr) IN
        /\ ~r.raised
        /\ newd' = r.newd
        /\ new_s' = r.new_s
        /\ state' = [changed |-> state.changed \/ r.changed, count |-> state.count + 1]
    /\ rpc' = "returned"
    /\ UNCHANGED <<orig_s, hexstr, jitterVars, scanVars, sortVars, sorterVars>>

\* quantize raises InvalidOperation, which nothing catches
ReplRaise ==
    /\ rpc = "matched"
    /\ Repl(orig_s, hexstr).raised
    /\ rpc' = "raised"
    /\ UNCHANGED <<orig_s, hexstr, newd, new_s, state, jitterVars, scanVars, sortVars, sorterVars>>

NextRepl == ReplReturn \/ ReplRaise

SpecRepl == InitRepl /\ [][NextRepl]_vars

(***************************************************************************)
(* Properties of repl (under SpecRepl).                                    *)
(***************************************************************************)
IsDigitSeq(s) == \A i \in 1..Len(s) : s[i] \in 0..9

\* C2: every literal emitted by repl is <integer-part>.<fraction> with
\* exactly 16 digits after the decimal point.
C2_SixteenFractionDigits ==
    rpc = "returned" =>
        /\ Len(new_s.frac) = 16
        /\ Len(new_s.int) >= 1
        /\ IsDigitSeq(new_s.int) /\ IsDigitSeq(new_s.frac)

\* a literal of more than 16 fractional digits, 17 of them trailing zeros,
\* has been rewritten
C2_Witness ==
    /\ rpc = "returned"
    /\ Len(orig_s.frac) > 16
    /\ TrailingZeros(orig_s.frac) > 16
    /\ Len(new_s.frac) = 16

\* C8: every digit in the first 16 fractional positions of the original
\* that is not one of its trailing zeros is found unchanged at the same
\* position of the rewritten literal.
C8_GenuineDigitsKept ==
    rpc = "returned" =>
        \A i \in 1..Min(16, Len(orig_s.frac) - TrailingZeros(orig_s.frac)) :
            new_s.frac[i] = orig_s.frac[i]

\* the value of orig_s written with 16 places
ExactAt16(lit) ==
    StripZeros(lit.int \o lit.frac \o Rep(0, Places - Len(lit.frac)))

\* C10: for a literal of fewer than 16 fractional digits, the quantized
\* sum of the literal and the jitter equals the literal's value exactly.
C10_JitterKeepsValue ==
    (rpc = "returned" /\ Len(orig_s.frac) < Places) =>
        /\ newd.places = Places
        /\ newd.digs = ExactAt16(orig_s)

\* the largest jitter, 999 / 10^20, was added to a literal of 15 fractional
\* digits and a 24-digit integer part
C10_Witness ==
    /\ rpc = "returned"
    /\ Len(orig_s.frac) = 15
    /\ Len(orig_s.int) = 24
    /\ orig_s.int[1] = 9
    /\ Jitter(hexstr).digs = <<9, 9, 9>>
    /\ newd.digs = ExactAt16(orig_s)

(***************************************************************************)
(* normalize_positions.py: the per-file loop.  A file's text is the        *)
(* sequence of its coordinate matches, each with the hash of its uid+name; *)
(* the text between the matches is copied verbatim.                        *)
(***************************************************************************)
MaxRuns == 3

js_files == <<"a.js", "b.js">>

Lit(i, f) == [int |-> i, frac |-> f]

JLiterals ==
    {Lit(<<1>>, <<5>>),
     Lit(<<1>>, <<0>>),
     Lit(<<0>>, <<0, 5>>),
     Lit(<<1>>, <<1, 2, 3, 4, 5, 6, 7, 8, 9, 0, 1, 2, 3, 4, 5, 6>>),
     Lit(<<0>>, Rep(0, 15) \o <<2>>),
     Lit(Rep(1, 25), <<>>)}

JHexStrs ==
    {<<3, 11, 5, 13, 5, 12, 3, 7>> \o HexTail, <<0, 0, 0, 0, 0, 0, 0, 0>> \o HexTail}

JCoords == {[hx |-> h, lit |-> l] : h \in JHexStrs, l \in JLiterals}

JTexts == {<<c>> : c \in JCoords}

\* coord_pattern.sub(repl, obj_text) over every object of the text
ReplAll(text) == [i \in 1..Len(text) |-> Repl(text[i].lit, text[i].hx)]

NewText(text) ==
    [i \in 1..Len(text) |-> [hx |-> text[i].hx, lit |-> ReplAll(text)[i].new_s]]

AnyRaised(text) == \E i \in 1..Len(text) : ReplAll(text)[i].raised

AnyChanged(text) == \E i \in 1..Len(text) : ReplAll(text)[i].changed

InitJitter ==
    /\ ReplIdle
    /\ SorterIdle
    /\ ScanIdle
    /\ SortIdle
    /\ jdisk \in [{js_files[i] : i \in 1..Len(js_files)} -> JTexts]
    /\ jpc = "loop"
    /\ js_left = js_files
    /\ changed = FALSE
    /\ changed_files = <<>>
    /\ summary = <<>>
    /\ jvisited = {}
    /\ jruns = 0

\* one iteration of "for fp in js_files" that raises nothing
JFile ==
    /\ jpc = "loop"
    /\ js_left # <<>>
    /\ LET fp       == Head(js_left)
           txt      == jdisk[fp]
           new_txt  == NewText(txt)
       IN /\ ~AnyRaised(txt)
          /\ changed' = AnyChanged(txt)
          /\ IF AnyChanged(txt) /\ new_txt # txt
             THEN /\ jdisk' = [jdisk EXCEPT ![fp] = new_txt]
                  /\ changed_files' = Append(changed_files, fp)
                  /\ summary' = Append(summary, <<fp, Len(txt)>>)
             ELSE UNCHANGED <<jdisk, changed_files, summary>>
          /\ jvisited' = jvisited \cup {fp}
    /\ js_left' = Tail(js_left)
    /\ UNCHANGED <<jpc, jruns, replVars, scanVars, sortVars, sorterVars>>

\* fp.read_text raises (OSError, UnicodeDecodeError): nothing catches it
JReadError ==
    /\ jpc = "loop"
    /\ js_left # <<>>
    /\ jvisited' = jvisited \cup {Head(js_left)}
    /\ jpc' = "crashed"
    /\ UNCHANGED <<jdisk, js_left, changed, changed_files, summary, jruns, replVars, scanVars, sortVars, sorterVars>>

\* quantize raises InvalidOperation inside repl: nothing catches it
JInvalidOperation ==
    /\ jpc = "loop"
    /\ js_left # <<>>
    /\ AnyRaised(jdisk[Head(js_left)])
    /\ jvisited' = jvisited \cup {Head(js_left)}
    /\ changed' = FALSE
    /\ jpc' = "crashed"
    /\ UNCHANGED <<jdisk, js_left, changed_files, summary, jruns, replVars, scanVars, sortVars, sorterVars>>

\* fp.write_text raises on open: nothing catches it, the file is kept
JWriteError ==
    /\ jpc = "loop"
    /\ js_left # <<>>
    /\ LET txt == jdisk[Head(js_left)]
       IN /\ ~AnyRaised(txt)
          /\ AnyChanged(txt) /\ NewText(txt) # txt
          /\ changed' = TRUE
    /\ jvisited' = jvisited \cup {Head(js_left)}
    /\ jpc' = "crashed"
    /\ UNCHANGED <<jdisk, js_left, changed_files, summary, jruns, replVars, scanVars, sortVars, sorterVars>>

\* the loop is exhausted: print the summary and exit
JDone ==
    /\ jpc = "loop"
    /\ js_left = <<>>
    /\ jpc' = "done"
    /\ jruns' = jruns + 1
    /\ UNCHANGED <<jdisk, js_left, changed, changed_files, summary, jvisited, replVars, scanVars, sortVars, sorterVars>>

\* the script is run again on the same directory
JStart ==
    /\ jpc \in {"done", "crashed"}
    /\ jruns < MaxRuns
    /\ jpc' = "loop"
    /\ js_left' = js_files
    /\ changed' = FALSE
    /\ changed_files' = <<>>
    /\ summary' = <<>>
    /\ jvisited' = {}
    /\ UNCHANGED <<jdisk, jruns, replVars, scanVars, sortVars, sorterVars>>

NextJitter == JFile \/ JReadError \/ JInvalidOperation \/ JWriteError \/ JDone \/ JStart

SpecJitter == InitJitter /\ [][NextJitter]_vars

\* C1: once a run has rewritten the files, a later run changes no file
\* and its changed flag stays false.
C1_SecondPassNoChange ==
    [][(jruns >= 1 /\ jpc = "loop" /\ js_left # <<>>) =>
            (jdisk' = jdisk /\ ~changed')]_vars

(***************************************************************************)
(* sort_layer_markers.py: find_first_top_level_array, one action per       *)
(* iteration of its while loop.  Indices are 0-based as in the source.     *)
(***************************************************************************)
MaxTextLen == 5

\* the backquote character (the TLA+ lexer accepts no backquote in a string)
Backquote == "BQ"

Alphabet == {"[", "]", "'", "\"", Backquote, "/", "*", "\\", "\n"}

Texts == UNION {[1..n -> Alphabet] : n \in 0..MaxTextLen}

\* s[k] of the source
CharAt(k) == scan_s[k + 1]

\* nxt = s[i+1] if i+1 < n else the empty string
Nxt == IF scan_i + 1 < Len(scan_s) THEN CharAt(scan_i + 1) ELSE ""

\* the if/elif chain with the block-comment test left out
BranchNoBlock ==
    IF in_line_comment THEN "line"
    ELSE IF in_single THEN "single"
    ELSE IF in_double THEN "double"
    ELSE IF in_template THEN "template"
    ELSE "normal"

\* the if/elif chain with the template-string test left out
BranchNoTemplate ==
    IF in_line_comment THEN "line"
    ELSE IF in_block_comment THEN "block"
    ELSE IF in_single THEN "single"
    ELSE IF in_double THEN "double"
    ELSE "normal"

\* which arm of the if/elif chain the iteration takes
Branch ==
    IF in_line_comment THEN "line"
    ELSE IF in_block_comment THEN "block"
    ELSE IF in_single THEN "single"
    ELSE IF in_double THEN "double"
    ELSE IF in_template THEN "template"
    ELSE "normal"

\* escape = (ch == "\\" and not escape)
EscapeAfter(ch) == ch = "\\" /\ ~escape

InitScan ==
    /\ ReplIdle
    /\ SorterIdle
    /\ JitterIdle
    /\ SortIdle
    /\ scan_s \in Texts
    /\ scan_i = 0
    /\ in_single = FALSE /\ in_double = FALSE /\ in_template = FALSE
    /\ in_line_comment = FALSE /\ in_block_comment = FALSE
    /\ escape = FALSE
    /\ depth = 0
    /\ start = NoStart
    /\ ret = NoSpan
    /\ spc = "scan"
    /\ inside = {}
    /\ counted = {}

LineCommentArm(ch) ==
    /\ in_line_comment' = (ch # "\n")
    /\ scan_i' = scan_i + 1
    /\ UNCHANGED <<in_single, in_double, in_template, in_block_comment,
                   escape, depth, start, ret, spc, counted>>

BlockCommentArm(ch) ==
    /\ IF ch = "*" /\ Nxt = "/"
       THEN in_block_comment' = FALSE /\ scan_i' = scan_i + 2
       ELSE in_block_comment' = TRUE /\ scan_i' = scan_i + 1
    /\ UNCHANGED <<in_single, in_double, in_template, in_line_comment,
                   escape, depth, start, ret, spc, counted>>

SingleArm(ch) ==
    /\ in_single' = ~(~escape /\ ch = "'")
    /\ escape' = EscapeAfter(ch)
    /\ scan_i' = scan_i + 1
    /\ UNCHANGED <<in_double, in_template, in_line_comment, in_block_comment,
                   depth, start, ret, spc, counted>>

DoubleArm(ch) ==
    /\ in_double' = ~(~escape /\ ch = "\"")
    /\ escape' = EscapeAfter(ch)
    /\ scan_i' = scan_i + 1
    /\ UNCHANGED <<in_single, in_template, in_line_comment, in_block_comment,
                   depth, start, ret, spc, counted>>

TemplateArm(ch) ==
    /\ in_template' = ~(~escape /\ ch = Backquote)
    /\ escape' = EscapeAfter(ch)
    /\ scan_i' = scan_i + 1
    /\ UNCHANGED <<in_single, in_double, in_line_comment, in_block_comment,
                   depth, start, ret, spc, counted>>

NormalArm(ch) ==
    IF ch = "/" /\ Nxt = "/" THEN
        /\ in_line_comment' = TRUE
        /\ scan_i' = scan_i + 2
        /\ UNCHANGED <<in_single, in_double, in_template, in_block_comment,
                       escape, depth, start, ret, spc, counted>>
    ELSE IF ch = "/" /\ Nxt = "*" THEN
        /\ in_block_comment' = TRUE
        /\ scan_i' = scan_i + 2
        /\ UNCHANGED <<in_single, in_double, in_template, in_line_comment,
                       escape, depth, start, ret, spc, counted>>
    ELSE IF ch = "'" THEN
        /\ in_single' = TRUE
        /\ scan_i' = scan_i + 1
        /\ UNCHANGED <<in_double, in_template, in_line_comment, in_block_comment,
                       escape, depth, start, ret, spc, counted>>
    ELSE IF ch = "\"" THEN
        /\ in_double' = TRUE
        /\ scan_i' = scan_i + 1
        /\ UNCHANGED <<in_single, in_template, in_line_comment, in_block_comment,
                       escape, depth, start, ret, spc, counted>>
    ELSE IF ch = Backquote THEN
        /\ in_template' = TRUE
        /\ scan_i' = scan_i + 1
        /\ UNCHANGED <<in_single, in_double, in_line_comment, in_block_comment,
                       escape, depth, start, ret, spc, counted>>
    ELSE IF ch = "[" THEN
        /\ start' = IF depth = 0 THEN scan_i ELSE start
        /\ depth' = depth + 1
        /\ counted' = counted \cup {scan_i}
        /\ scan_i' = scan_i + 1
        /\ UNCHANGED <<lexVars, ret, spc>>
    ELSE IF ch = "]" /\ depth > 0 THEN
        /\ depth' = depth - 1
        /\ counted' = counted \cup {scan_i}
        /\ IF depth - 1 = 0 /\ start # NoStart
           THEN ret' = <<start, scan_i>> /\ spc' = "returned" /\ scan_i' = scan_i
           ELSE scan_i' = scan_i + 1 /\ UNCHANGED <<ret, spc>>
        /\ UNCHANGED <<lexVars, start>>
    ELSE
        /\ scan_i' = scan_i + 1
        /\ UNCHANGED <<lexVars, depth, start, ret, spc, counted>>

\* one iteration of the while loop
ScanStep ==
    /\ spc = "scan"
    /\ scan_i < Len(scan_s)
    /\ LET ch == CharAt(scan_i) IN
        /\ inside' = IF in_single \/ in_double \/ in_template
                         \/ in_line_comment \/ in_block_comment
                      THEN inside \cup {scan_i} ELSE inside
        /\ CASE Branch = "line"     -> LineCommentArm(ch)
             [] Branch = "block"    -> BlockCommentArm(ch)
             [] Branch = "single"   -> SingleArm(ch)
             [] Branch = "double"   -> DoubleArm(ch)
             [] Branch = "template" -> TemplateArm(ch)
             [] OTHER               -> NormalArm(ch)
    /\ UNCHANGED <<scan_s, replVars, jitterVars, sortVars, sorterVars>>

\* the loop ends without a span: return None
ScanNone ==
    /\ spc = "scan"
    /\ scan_i >= Len(scan_s)
    /\ ret' = NoSpan
    /\ spc' = "returned"
    /\ UNCHANGED <<scan_s, scan_i, lexVars, depth, start, inside, counted, replVars, jitterVars, sortVars, sorterVars>>

NextScan == ScanStep \/ ScanNone

SpecScan == InitScan /\ [][NextScan]_vars

\* C3: a bracket read inside a string or a comment never changes the depth
\* and is never the start or end of the span; a returned span starts at a
\* '[' and ends at a ']' that were both read in the normal state.
C3_BracketsInsideIgnored ==
    /\ counted \cap inside = {}
    /\ (start # NoStart) => (start \notin inside /\ CharAt(start) = "[")
    /\ (ret # NoSpan) =>
          /\ CharAt(ret[1]) = "[" /\ CharAt(ret[2]) = "]"
          /\ ret[1] \notin inside /\ ret[2] \notin inside

\* a span was returned although a bracket was read inside a string or comment
C3_Witness ==
    /\ ret # NoSpan
    /\ \E k \in inside : CharAt(k) \in {"[", "]"} /\ ret[1] < k /\ k < ret[2]

\* C9: at most one of the five lexical flags is set, and escape is set
\* only while one of the three string flags is set.
C9_LexicalStatesExclusive ==
    /\ Cardinality({f \in 1..5 :
          <<in_single, in_double, in_template, in_line_comment, in_block_comment>>[f]}) <= 1
    /\ escape => (in_single \/ in_double \/ in_template)

\* the scanner is inside a double-quoted string right after a backslash
C9_Witness ==
    /\ spc = "scan"
    /\ in_double /\ escape
    /\ scan_i > 1

(***************************************************************************)
(* sort_layer_markers.py: sort_markers.                                    *)
(* A JSON value is [t, v]: a number, a string that float() parses, a       *)
(* string that float() rejects, NaN, or a missing key.  An element of the  *)
(* parsed array is a mapping with the keys y, lat, x, lon, or a value that *)
(* is not a mapping.                                                       *)
(***************************************************************************)
Num(n) == [t |-> "num", v |-> n]

NumStr(n) == [t |-> "numstr", v |-> n]

BadStr == [t |-> "badstr", v |-> 0]

NaN == [t |-> "nan", v |-> 0]

Missing == [t |-> "missing", v |-> 0]

Marker(vy, vlat, vx, vlon) ==
    [map |-> TRUE, y |-> vy, lat |-> vlat, x |-> vx, lon |-> vlon]

\* an array element that is not a mapping, such as the number 3
NotMapping == [map |-> FALSE, y |-> Missing, lat |-> Missing, x |-> Missing, lon |-> Missing]

\* m.get(k, m.get(alt, 0))
Get(m, k, alt) ==
    IF m[k].t # "missing" THEN m[k]
    ELSE IF m[alt].t # "missing" THEN m[alt]
    ELSE Num(0)

\* try: float(v) except Exception: 0       (a float is [nan, v])
FloatOr0(v) ==
    IF v.t \in {"num", "numstr"} THEN [nan |-> FALSE, v |-> v.v]
    ELSE IF v.t = "nan" THEN [nan |-> TRUE, v |-> 0]
    ELSE [nan |-> FALSE, v |-> 0]

\* keyfn that never falls back to lat / lon
keyfnNoFallback(m) ==
    IF ~m.map THEN <<[nan |-> FALSE, v |-> 0], [nan |-> FALSE, v |-> 0]>>
    ELSE <<FloatOr0(Get(m, "y", "y")), FloatOr0(Get(m, "x", "x"))>>

\* keyfn: m.get raises AttributeError on a value that is not a mapping,
\* inside the try
keyfn(m) ==
    IF ~m.map THEN <<[nan |-> FALSE, v |-> 0], [nan |-> FALSE, v |-> 0]>>
    ELSE <<FloatOr0(Get(m, "y", "lat")), FloatOr0(Get(m, "x", "lon"))>>

FloatEq(a, b) == ~a.nan /\ ~b.nan /\ a.v = b.v

FloatLt(a, b) == ~a.nan /\ ~b.nan /\ a.v < b.v

\* tuple comparison ka < kb: the first differing position decides
KeyLt(ka, kb) ==
    IF ~FloatEq(ka[1], kb[1]) THEN FloatLt(ka[1], kb[1])
    ELSE IF ~FloatEq(ka[2], kb[2]) THEN FloatLt(ka[2], kb[2])
    ELSE FALSE

\* the order sorted() uses between two tagged elements
ElemLt(a, b) == KeyLt(keyfn(a.m), keyfn(b.m))

Reverse(L) == [k \in 1..Len(L) |-> L[Len(L) + 1 - k]]

\* list.sort, count_run: length of the leading run and whether it descends
CountRun(L) ==
    IF Len(L) <= 1 THEN [n |-> Len(L), desc |-> FALSE]
    ELSE LET d == ElemLt(L[2], L[1])
             InRun(j) == IF d THEN ElemLt(L[j], L[j - 1]) ELSE ~ElemLt(L[j], L[j - 1])
             n == CHOOSE n \in 2..Len(L) :
                     /\ \A j \in 3..n : InRun(j)
                     /\ n = Len(L) \/ ~InRun(n + 1)
         IN [n |-> n, desc |-> d]

RECURSIVE BinPos(_, _, _, _)
\* list.sort, binarysort: where the pivot goes in the sorted prefix L[l+1..r]
BinPos(L, pivot, l, r) ==
    LET p  == l + ((r - l) \div 2)
        r2 == IF ElemLt(pivot, L[p + 1]) THEN p ELSE r
        l2 == IF ElemLt(pivot, L[p + 1]) THEN l ELSE p + 1
    IN IF l2 < r2 THEN BinPos(L, pivot, l2, r2) ELSE l2

RECURSIVE BinarySort(_, _)
\* list.sort, binarysort: L[1..n] is sorted, insert the rest one by one
BinarySort(L, n) ==
    IF n >= Len(L) THEN L
    ELSE LET pivot == L[n + 1]
             pos   == BinPos(L, pivot, 0, n)
         IN BinarySort(SubSeq(L, 1, pos) \o <<pivot>> \o SubSeq(L, pos + 1, n)
                          \o SubSeq(L, n + 2, Len(L)), n + 1)

\* sorted(markers, key=keyfn) for a list shorter than 64 elements
Sorted(L) ==
    LET run == CountRun(L)
        L1  == IF run.desc
               THEN Reverse(SubSeq(L, 1, run.n)) \o SubSeq(L, run.n + 1, Len(L))
               ELSE L
    IN BinarySort(L1, run.n)

\* the elements, each with its index in the input list
Tagged(L) == [k \in 1..Len(L) |-> [id |-> k, m |-> L[k]]]

sort_markers(L) == Sorted(Tagged(L))

MaxMarkers == 3

MarkerVals ==
    {Marker(Num(0), Missing, Num(0), Missing),
     Marker(Num(1), Missing, Num(0), Missing),
     Marker(Num(1), Missing, Num(1), Missing),
     Marker(Num(1), Num(0), Num(1), Missing),
     Marker(Missing, Num(1), Missing, Num(0)),
     Marker(Missing, Missing, Missing, Missing),
     Marker(BadStr, Num(1), Num(1), Missing),
     Marker(NumStr(2), Missing, Missing, Num(1)),
     Marker(NaN, Missing, Num(0), Missing),
     Marker(Num(2), Missing, NaN, Missing)}

MarkerLists == UNION {[1..n -> MarkerVals] : n \in 0..MaxMarkers}

InitSort ==
    /\ ReplIdle
    /\ SorterIdle
    /\ JitterIdle
    /\ ScanIdle
    /\ markers \in MarkerLists
    /\ sorted_data = <<>>
    /\ kpc = "called"

SortMarkers ==
    /\ kpc = "called"
    /\ sorted_data' = sort_markers(markers)
    /\ kpc' = "returned"
    /\ UNCHANGED <<markers, replVars, jitterVars, scanVars, sorterVars>>

NextSort == SortMarkers

SpecSort == InitSort /\ [][NextSort]_vars

\* the key (y, x) as the claim gives it: y or else lat, x or else lon,
\* a missing or unparseable value counting as 0
ClaimKey(m) ==
    LET pick(a, b) == IF m[a].t # "missing" THEN m[a] ELSE m[b]
        val(v) == IF v.t \in {"num", "numstr"} THEN [nan |-> FALSE, v |-> v.v]
                  ELSE IF v.t = "nan" THEN [nan |-> TRUE, v |-> 0]
                  ELSE [nan |-> FALSE, v |-> 0]
    IN <<val(pick("y", "lat")), val(pick("x", "lon"))>>

\* ka <= kb on (y, x) pairs
ClaimLe(ka, kb) ==
    \/ FloatLt(ka[1], kb[1])
    \/ FloatEq(ka[1], kb[1]) /\ (FloatLt(ka[2], kb[2]) \/ FloatEq(ka[2], kb[2]))

ClaimEq(ka, kb) == FloatEq(ka[1], kb[1]) /\ FloatEq(ka[2], kb[2])

HasNaNKey(L) ==
    \E k \in 1..Len(L) : ClaimKey(L[k])[1].nan \/ ClaimKey(L[k])[2].nan

\* the result is the stable ascending sort of the input by (y, x)
StableSortOf(out, in) ==
    /\ Len(out) = Len(in)
    /\ {out[k].id : k \in 1..Len(out)} = 1..Len(in)
    /\ \A k \in 1..Len(out) : out[k].m = in[out[k].id]
    /\ \A k \in 1..(Len(out) - 1) :
          /\ ClaimLe(ClaimKey(out[k].m), ClaimKey(out[k + 1].m))
          /\ ClaimEq(ClaimKey(out[k].m), ClaimKey(out[k + 1].m))
                => out[k].id < out[k + 1].id

\* C4 as stated: for every input list of mappings the result is the stable
\* ascending sort of the input by (y, x).
C4_StableSortEveryInput ==
    kpc = "returned" => StableSortOf(sorted_data, markers)

\* C4 amended: for every input list of mappings none of whose keys is NaN,
\* the result is the stable ascending sort of the input by (y, x).
C4_StableSortComparableKeys ==
    (kpc = "returned" /\ ~HasNaNKey(markers)) => StableSortOf(sorted_data, markers)

\* three markers were reordered, two of them with equal keys, one of them
\* keyed through the lat / lon fallback
C4_Witness ==
    /\ kpc = "returned"
    /\ ~HasNaNKey(markers)
    /\ Len(markers) = 3
    /\ sorted_data[1].id = 3
    /\ markers[1].y.t = "missing" /\ markers[1].lat.t = "num"
    /\ ClaimEq(ClaimKey(markers[1]), ClaimKey(markers[2]))
    /\ markers[1] # markers[2]

(***************************************************************************)
(* sort_layer_markers.py: process_file and main.                           *)
(* The content of a file is what process_file makes of its text: no        *)
(* top-level array, an array that json.loads rejects, or the parsed list.  *)
(* The element values hold no comment, quote or comma-bracket sequences,   *)
(* so the text written by json.dumps parses back to the same list.         *)
(***************************************************************************)
MaxElems == 2

files == <<"m.js", "n.js">>

FileSet == {files[k] : k \in 1..Len(files)}

\* path + '.bak'
Bak(f) == IF f = "m.js" THEN "m.js.bak" ELSE "n.js.bak"

Absent == [kind |-> "absent", data |-> <<>>]

NoArray == [kind |-> "noarray", data |-> <<>>]

Unparsable == [kind |-> "unparsable", data |-> <<>>]

Array(d) == [kind |-> "array", data |-> d]

FileElems ==
    {Marker(Num(1), Missing, Num(0), Missing),
     Marker(Num(0), Missing, Num(0), Missing),
     NotMapping}

Contents ==
    {NoArray, Unparsable} \cup
    {Array(d) : d \in UNION {[1..n -> FileElems] : n \in 0..MaxElems}}

Untag(L) == [k \in 1..Len(L) |-> L[k].m]

\* process_file without the isinstance(data[0], dict) test
OutcomeNoShapeCheck(c) ==
    IF c.kind = "noarray" THEN "SKIP_no_array"
    ELSE IF c.kind = "unparsable" THEN "ERROR_parse"
    ELSE IF c.data = <<>> THEN "OK_empty"
    ELSE IF Untag(sort_markers(c.data)) = c.data THEN "NOCHANGE"
    ELSE "REWRITE"

\* process_file up to "new_txt = ...": which return or write it reaches.
\* (json.loads of a text that starts with '[' yields a list or raises, so
\* the "not a list" return is never taken.)
Outcome(c) ==
    IF c.kind = "noarray" THEN "SKIP_no_array"
    ELSE IF c.kind = "unparsable" THEN "ERROR_parse"
    ELSE IF c.data = <<>> THEN "OK_empty"
    ELSE IF ~c.data[1].map THEN "SKIP_not_objects"
    ELSE IF Untag(sort_markers(c.data)) = c.data THEN "NOCHANGE"
    ELSE "REWRITE"

\* the value process_file returns
Truthy(tag) == tag \in {"NOCHANGE", "WILL_UPDATE", "UPDATED"}

\* txt[:start] + json.dumps(sorted_data, indent=4) + txt[end+1:]
NewTxt(c) == Array(Untag(sort_markers(c.data)))

\* the backup left out
WriteBakNothing(d, f) == d

\* open(bak, 'w').write(txt)
WriteBak(d, f) == [d EXCEPT ![Bak(f)] = d[f]]

\* open(path, 'w').write(new_txt)
WritePath(d, f) == [d EXCEPT ![f] = NewTxt(d[f])]

InitSorter ==
    /\ ReplIdle
    /\ JitterIdle
    /\ ScanIdle
    /\ SortIdle
    /\ disk \in [FileSet \cup {Bak(f) : f \in FileSet} -> Contents \cup {Absent}]
    /\ \A f \in FileSet : disk[f] \in Contents /\ disk[Bak(f)] \in {Absent, NoArray}
    /\ apply \in BOOLEAN
    /\ files_left = files
    /\ ok = 0
    /\ log = <<>>
    /\ mpc = "loop"
    /\ ppc = "start"
    /\ visited = {}
    /\ before = [f \in FileSet |-> Absent]
    /\ sruns = 0

\* main's loop moves on to the next file after printing a line
NextFile(tag) ==
    /\ log' = Append(log, <<Head(files_left), tag>>)
    /\ ok' = IF Truthy(tag) THEN ok + 1 ELSE ok
    /\ files_left' = Tail(files_left)
    /\ visited' = visited \cup {Head(files_left)}
    /\ ppc' = "start"

\* process_file returns without writing: a skip, a parse error, an empty
\* array, no change, or a dry run
ProcessFile ==
    /\ mpc = "loop" /\ files_left # <<>> /\ ppc = "start"
    /\ LET tag == Outcome(disk[Head(files_left)]) IN
        /\ ~(tag = "REWRITE" /\ apply)
        /\ NextFile(IF tag = "REWRITE" THEN "WILL_UPDATE" ELSE tag)
    /\ UNCHANGED <<disk, apply, mpc, before, sruns, replVars, jitterVars, scanVars, sortVars>>

\* process_file in apply mode writes the backup
ProcessFileBackup ==
    /\ mpc = "loop" /\ files_left # <<>> /\ ppc = "start"
    /\ Outcome(disk[Head(files_left)]) = "REWRITE" /\ apply
    /\ disk' = WriteBak(disk, Head(files_left))
    /\ ppc' = "bak_written"
    /\ visited' = visited \cup {Head(files_left)}
    /\ UNCHANGED <<apply, files_left, ok, log, mpc, before, sruns,
                   replVars, jitterVars, scanVars, sortVars>>

\* process_file in apply mode overwrites the file and returns True
ProcessFileOverwrite ==
    /\ mpc = "loop" /\ files_left # <<>> /\ ppc = "bak_written"
    /\ disk' = WritePath(disk, Head(files_left))
    /\ before' = [before EXCEPT ![Head(files_left)] = disk[Head(files_left)]]
    /\ NextFile("UPDATED")
    /\ UNCHANGED <<apply, mpc, sruns, replVars, jitterVars, scanVars, sortVars>>

\* open(path) or read() raises: main prints [ERROR] and continues
ProcessFileReadError ==
    /\ mpc = "loop" /\ files_left # <<>> /\ ppc = "start"
    /\ NextFile("ERROR_exc")
    /\ UNCHANGED <<disk, apply, mpc, before, sruns, replVars, jitterVars, scanVars, sortVars>>

\* open(bak, 'w') raises: main prints [ERROR] and continues
ProcessFileBakError ==
    /\ mpc = "loop" /\ files_left # <<>> /\ ppc = "start"
    /\ Outcome(disk[Head(files_left)]) = "REWRITE" /\ apply
    /\ NextFile("ERROR_exc")
    /\ UNCHANGED <<disk, apply, mpc, before, sruns, replVars, jitterVars, scanVars, sortVars>>

\* open(path, 'w') raises after the backup: main prints [ERROR] and continues
ProcessFileWriteError ==
    /\ mpc = "loop" /\ files_left # <<>> /\ ppc = "bak_written"
    /\ NextFile("ERROR_exc")
    /\ UNCHANGED <<disk, apply, mpc, before, sruns, replVars, jitterVars, scanVars, sortVars>>

\* the loop is exhausted: print the totals
MainDone ==
    /\ mpc = "loop" /\ files_left = <<>>
    /\ mpc' = "done"
    /\ sruns' = sruns + 1
    /\ UNCHANGED <<disk, apply, files_left, ok, log, ppc, visited, before,
                   replVars, jitterVars, scanVars, sortVars>>

\* the tool is run again, with or without --apply
MainStart ==
    /\ mpc = "done"
    /\ sruns < MaxRuns
    /\ apply' \in BOOLEAN
    /\ files_left' = files
    /\ ok' = 0
    /\ log' = <<>>
    /\ visited' = {}
    /\ mpc' = "loop"
    /\ UNCHANGED <<disk, ppc, before, sruns, replVars, jitterVars, scanVars, sortVars>>

NextSorter ==
    \/ ProcessFile \/ ProcessFileBackup \/ ProcessFileOverwrite
    \/ ProcessFileReadError \/ ProcessFileBakError \/ ProcessFileWriteError
    \/ MainDone \/ MainStart

SpecSorter == InitSorter /\ [][NextSorter]_vars

HasNonMapping(c) ==
    c.kind = "array" /\ \E k \in 1..Len(c.data) : ~c.data[k].map

FirstNotMapping(c) ==
    c.kind = "array" /\ c.data # <<>> /\ ~c.data[1].map

\* the step leaves every file as it is and, if it prints, prints the skip
\* (or the [ERROR] of a read that raised)
SkippedUntouched ==
    /\ disk' = disk
    /\ log' # log => log'[Len(log')][2] \in {"SKIP_not_objects", "ERROR_exc"}

\* C5 as stated: a file whose array is a non-empty list with an element
\* that is not a mapping is skipped and left untouched, no .bak written.
C5_AnyNonMappingSkipped ==
    [][(mpc = "loop" /\ files_left # <<>> /\ HasNonMapping(disk[Head(files_left)]))
          => SkippedUntouched]_vars

\* C5 amended: a file whose array is a non-empty list whose FIRST element
\* is not a mapping is skipped and left untouched, no .bak written.
C5_FirstNonMappingSkipped ==
    [][(mpc = "loop" /\ files_left # <<>> /\ FirstNotMapping(disk[Head(files_left)]))
          => SkippedUntouched]_vars

\* in apply mode a file whose list starts with a non-mapping followed by a
\* mapping was skipped, and neither it nor its .bak was written
C5_Witness ==
    /\ apply
    /\ log # <<>>
    /\ log[Len(log)][2] = "SKIP_not_objects"
    /\ LET f == log[Len(log)][1] IN
         /\ FirstNotMapping(disk[f])
         /\ Len(disk[f].data) = 2 /\ disk[f].data[2].map
         /\ disk[Bak(f)] = Absent

\* C6: a file is overwritten only in apply mode, right after the same
\* run wrote its verbatim content to <path>.bak; whenever a file differs
\* from what it held before its last overwrite, <path>.bak holds that.
C6_BackupBeforeOverwrite ==
    [][\A f \in FileSet :
          /\ disk'[f] # disk[f] =>
                /\ apply /\ ppc = "bak_written" /\ f = Head(files_left)
                /\ f \in visited
                /\ disk[Bak(f)] = disk[f]
                /\ disk'[Bak(f)] = disk[f]
          /\ (before'[f] # Absent /\ disk'[f] # before'[f]) =>
                disk'[Bak(f)] = before'[f]]_vars

\* after an earlier run, a run in apply mode has overwritten a file and
\* its .bak holds the content the file had
C6_Witness ==
    /\ sruns >= 1
    /\ apply
    /\ \E f \in FileSet :
         /\ before[f] # Absent
         /\ disk[f] # before[f]
         /\ disk[Bak(f)] = before[f]
         /\ disk[Bak(f)] # NoArray

(***************************************************************************)
(* Both tools, each run over its directory.                                *)
(***************************************************************************)
InitBatch ==
    \/ InitJitter
    \/ InitSorter

NextBatch == NextJitter \/ NextSorter

SpecBatch == InitBatch /\ [][NextBatch]_vars

JFileSet == {js_files[k] : k \in 1..Len(js_files)}

\* C7: in both tools a failure on one file ends that file only: the run
\* is never aborted and every file of the sorted list is processed.
C7_FailureEndsOneFileOnly ==
    /\ jpc # "crashed"
    /\ jpc = "done" => jvisited = JFileSet
    /\ mpc = "done" => visited = FileSet

====
